---- MODULE Spec2Model ----
(***************************************************************************)
(* Model of MyPluginComponent (src/MyPluginComponent.js): a Substance      *)
(* component that listens to the document's selectionchange event, caches  *)
(* a hasSelection flag, and runs one asynchronous "process text" action.   *)
(*                                                                         *)
(* JavaScript values are encoded as sequences of string tokens, so that    *)
(* any two values can be compared the way === compares them:               *)
(*   null -> <<"null">>, undefined -> <<"undefined">>,                     *)
(*   true -> <<"true">>, false -> <<"false">>,                             *)
(*   a text -> the sequence of its characters,                             *)
(*   an opaque string (message, node id, node type) -> <<string>>.         *)
(* Time is counted in milliseconds; a timer holds the time left until it   *)
(* is due, and the clock never runs past a due timer.                      *)
(***************************************************************************)
EXTENDS FiniteSets, Integers, Sequences, TLC

VARIABLES
    state,              \* this.state of the component
    button,             \* the button as last rendered by renderButton
    host,               \* the editor session's selection and document
    timers,             \* pending setTimeout callbacks, in scheduling order
    listeners,          \* functions registered for 'selectionchange'
    handleSelectionRef, \* identity of this.handleSelection (0 = prototype method)
    binds,              \* number of bound functions created by didMount
    disposed,           \* dispose has run since the last didMount
    overlap,            \* didMount has run on a component that was mounted
    errorAge,           \* milliseconds since showError set the error now shown
    notified,           \* a notification was handled since the host selection changed
    trace,              \* the last handler that ran and the patch it issued
    ssl                 \* setup-ssl.js: its file system, position and output

vars == <<state, button, host, timers, listeners,
          handleSelectionRef, binds, disposed, overlap, errorAge, notified, trace,
          ssl>>

\* The component's variables, which setup-ssl.js never touches.
componentVars == <<state, button, host, timers, listeners,
                   handleSelectionRef, binds, disposed, overlap, errorAge,
                   notified, trace>>

----------------------------------------------------------------------------
(* Bounds                                                                  *)

MaxTextLen == 1     \* longest selected text
MaxTimers == 2      \* most setTimeout callbacks pending at once
MaxMounts == 2      \* most didMount calls
MaxRuns == 2        \* most runs of setup-ssl.js in a row

----------------------------------------------------------------------------
(* JavaScript values                                                       *)

Null == <<"null">>
Undefined == <<"undefined">>
True == <<"true">>
False == <<"false">>

Bool(b) == IF b THEN True ELSE False

\* ToBoolean: false, null, undefined and the empty string are falsy.
Truthy(v) == v \notin {Null, Undefined, False, <<>>}

\* Property read: a missing key reads as undefined.
Get(S, k) == IF k \in DOMAIN S THEN S[k] ELSE Undefined

Chars == {" ", "h"}

RECURSIVE TextsOfLen(_)
TextsOfLen(n) ==
    IF n = 0 THEN {<<>>}
    ELSE {Append(t, c) : t \in TextsOfLen(n - 1), c \in Chars}

Texts == UNION {TextsOfLen(n) : n \in 0..MaxTextLen}

IsWhitespace(c) == c = " "

RECURSIVE trimStart(_)
trimStart(t) ==
    IF t # <<>> /\ IsWhitespace(Head(t)) THEN trimStart(Tail(t)) ELSE t

RECURSIVE trimEnd(_)
trimEnd(t) ==
    IF t # <<>> /\ IsWhitespace(t[Len(t)])
    THEN trimEnd(SubSeq(t, 1, Len(t) - 1))
    ELSE t

\* String.prototype.trim
trim(t) == trimEnd(trimStart(t))

----------------------------------------------------------------------------
(* Program constants                                                       *)

ActionDelay == 1000
ErrorDuration == 3000

SelectMsg == <<"Please select some text first">>
DoneMsg == <<"Action completed!">>
FailMsg == <<"error.message">>

\* The clock advances in steps of the shortest delay the component uses.
ClockStep == ActionDelay

----------------------------------------------------------------------------
(* The host editor                                                         *)

\* Top-level nodes of the document and their types; doc.get of any other
\* id returns undefined.
DocNodes == [n1 |-> "paragraph", n2 |-> "headline"]
NodeIds == {"n1", "n2", "nx"}

\* What editorSession.getSelection() and documentHelpers.getTextForSelection
\* do at this moment.  sel: "throws" (getSelection throws), "null",
\* "collapsed" or "range"; for a range, text is the extracted text or
\* TextThrows (the extraction throws), start and end are the ids of
\* sel.start.path[0] and sel.end.path[0].
TextThrows == <<"throws">>

NoRange(s) == [sel |-> s, text |-> <<>>, start |-> "n1", end |-> "n1"]
Range(t, a, b) == [sel |-> "range", text |-> t, start |-> a, end |-> b]

SomeText == <<"h">>

\* Every text inside one node, and one selection for each other shape:
\* another node, two nodes, an id the document does not know, a text
\* extraction that throws.
HostSelections ==
    {NoRange(s) : s \in {"throws", "null", "collapsed"}}
    \cup {Range(t, "n1", "n1") : t \in Texts}
    \cup {Range(SomeText, "n2", "n2"), Range(SomeText, "n1", "n2"),
          Range(SomeText, "nx", "n1"), Range(TextThrows, "n1", "n1")}

\* document.activeElement when a notification arrives: nothing, an element
\* of the editor, an element of the component below its .my-plugin root, or
\* an input of the component (class my-input) outside that root.
ActiveElements == {"null", "editor", "pluginChild", "myInput"}

----------------------------------------------------------------------------
(* Component                                                               *)

getInitialState ==
    [isOpen |-> False,
     selectedText |-> Null,
     sourceNodeId |-> Null,
     sourceNodeType |-> Null,
     hasSelection |-> False,
     isLoading |-> False,
     error |-> Null,
     response |-> Null]

\* Component.setState: the new state is the argument.
setState(S, P) == P

\* A merge that deletes the keys the patch sets to null.
extendStateDropNull(S, P) ==
    [k \in (DOMAIN S \cup DOMAIN P) \ {j \in DOMAIN P : P[j] = Null} |->
        IF k \in DOMAIN P THEN P[k] ELSE S[k]]

\* Component.extendState: the new state is the old one with the keys of the
\* patch overwritten.
extendState(S, P) ==
    [k \in DOMAIN S \cup DOMAIN P |-> IF k \in DOMAIN P THEN P[k] ELSE S[k]]

renderButtonNoLoading(S) ==
    LET canProcess == Truthy(Get(S, "hasSelection"))
    IN  [disabled |-> ~canProcess,
         title |-> IF canProcess THEN "" ELSE "Select text in the document first"]

renderButtonEither(S) ==
    LET canProcess == Truthy(Get(S, "hasSelection")) \/ ~Truthy(Get(S, "isLoading"))
    IN  [disabled |-> ~canProcess,
         title |-> IF canProcess THEN "" ELSE "Processing..."]

\* A button whose tooltip names the busy reason before the selection one.
renderButtonBusyFirst(S) ==
    LET canProcess == Truthy(Get(S, "hasSelection")) /\ ~Truthy(Get(S, "isLoading"))
    IN  [disabled |-> ~canProcess,
         title |-> IF canProcess THEN ""
                   ELSE IF Truthy(Get(S, "isLoading")) THEN "Processing..."
                        ELSE "Select text in the document first"]

renderButton(S) ==
    LET canProcess == Truthy(Get(S, "hasSelection")) /\ ~Truthy(Get(S, "isLoading"))
    IN  [disabled |-> ~canProcess,
         title |-> IF canProcess THEN ""
                   ELSE IF ~Truthy(Get(S, "hasSelection"))
                        THEN "Select text in the document first"
                        ELSE IF Truthy(Get(S, "isLoading")) THEN "Processing..."
                        ELSE ""]

NullInfo == [null |-> TRUE]

\* A snapshot that names the node the selection ends in.
getCurrentSelectionEndNode(h) ==
    IF h.sel = "throws" THEN NullInfo
    ELSE IF h.sel \in {"null", "collapsed"} THEN NullInfo
    ELSE IF h.text = TextThrows THEN NullInfo
    ELSE IF h.end \notin DOMAIN DocNodes THEN NullInfo
    ELSE [null |-> FALSE,
          text |-> h.text,
          nodeId |-> <<h.end>>,
          nodeType |-> <<DocNodes[h.end]>>]

\* A snapshot that takes the node id from the start of the selection and
\* the node type from its end.
getCurrentSelectionMixedNode(h) ==
    IF h.sel = "throws" THEN NullInfo
    ELSE IF h.sel \in {"null", "collapsed"} THEN NullInfo
    ELSE IF h.text = TextThrows THEN NullInfo
    ELSE IF h.start \notin DOMAIN DocNodes \/ h.end \notin DOMAIN DocNodes
         THEN NullInfo
    ELSE [null |-> FALSE,
          text |-> h.text,
          nodeId |-> <<h.start>>,
          nodeType |-> <<DocNodes[h.end]>>]

\* A snapshot accessor that reads the node's type with node?.type.
getCurrentSelectionAnyNode(h) ==
    IF h.sel = "throws" THEN NullInfo
    ELSE IF h.sel \in {"null", "collapsed"} THEN NullInfo
    ELSE IF h.text = TextThrows THEN NullInfo
    ELSE [null |-> FALSE,
          text |-> h.text,
          nodeId |-> <<h.start>>,
          nodeType |-> IF h.start \in DOMAIN DocNodes
                       THEN <<DocNodes[h.start]>> ELSE Undefined]

getCurrentSelection(h) ==
    IF h.sel = "throws" THEN NullInfo
    ELSE IF h.sel \in {"null", "collapsed"} THEN NullInfo
    ELSE IF h.text = TextThrows THEN NullInfo
    ELSE IF h.start \notin DOMAIN DocNodes THEN NullInfo
    ELSE [null |-> FALSE,
          text |-> h.text,
          nodeId |-> <<h.start>>,
          nodeType |-> <<DocNodes[h.start]>>]

derivedHasSelectionNoTrim(info) ==
    IF info.null THEN FALSE ELSE Len(info.text) > 0

\* selectionInfo?.text?.trim().length > 0
derivedHasSelection(info) ==
    IF info.null THEN FALSE ELSE Len(trim(info.text)) > 0

inOurPluginClosestOnly(a) == a = "pluginChild"

\* activeElement.closest('.my-plugin') || activeElement.classList.contains('my-input')
inOurPlugin(a) == a \in {"pluginChild", "myInput"}

\* Whether the focused element is one of the component's own elements.
InsideComponent(a) == a \in {"pluginChild", "myInput"}

NoPatch == <<>>

\* A pending setTimeout callback.  kind "clear" is showError's callback,
\* kind "op" the promise handleAction awaits.  left is the time until it is
\* due.  For an "op", steady records that hasSelection was true when the
\* action started and that the host selection is still the one it started
\* with.
Timer(kind, delay, steady) == [kind |-> kind, left |-> delay, steady |-> steady]

OpsIn(ts) == {i \in 1..Len(ts) : ts[i].kind = "op"}
Ops == OpsIn(timers)
Clears == {i \in 1..Len(timers) : timers[i].kind = "clear"}

\* The timer the event loop runs next: the first one that is due.
IsNext(i) ==
    /\ i \in 1..Len(timers)
    /\ timers[i].left = 0
    /\ \A j \in 1..(i - 1) : timers[j].left # 0

Without(i) == SubSeq(timers, 1, i - 1) \o SubSeq(timers, i + 1, Len(timers))

\* errorAge when the error shown does not come from showError.
NoAge == ErrorDuration + ClockStep

----------------------------------------------------------------------------
(* setup-ssl.js                                                            *)

\* A file of the certificate directory: whether it exists and which run of
\* the script wrote it (0: it was there before the script ever ran).
File(exists, by) == [exists |-> exists, by |-> by]
Absent == File(FALSE, 0)
Old == File(TRUE, 0)

NotInstalledMsg == "mkcert is not installed"
KeepingMsg == "Keeping existing certificates"
GeneratedMsg == "Certificates generated successfully"
GenerationFailedMsg == "Failed to generate certificates"
NotFoundMsg == "Certificate files not found"
CompleteMsg == "SSL setup complete!"

\* The machine before the script's first run: whether mkcert is on the
\* path, whether ~/.localhost-ssl exists, and the two files in it.
ScriptStart(mkcert, dir, key, cert) ==
    [mkcert |-> mkcert, dir |-> dir, key |-> key, cert |-> cert,
     pc |-> "exited", run |-> 0, status |-> "none", out |-> {},
     startKey |-> key, startCert |-> cert, startInvocations |-> 0,
     invocations |-> 0, generated |-> 0, threw |-> FALSE]

ScriptStarts ==
    {ScriptStart(m, TRUE, k, c) : m \in BOOLEAN, k \in {Absent, Old},
                                  c \in {Absent, Old}}
      \cup {ScriptStart(m, FALSE, Absent, Absent) : m \in BOOLEAN}

\* process.exit(status), or the end of the script (status 0).
Exit(s, status, msgs) ==
    [s EXCEPT !.pc = "exited", !.status = status, !.out = s.out \cup msgs]

\* node setup-ssl.js
runScript ==
    /\ ssl.pc = "exited"
    /\ ssl.run < MaxRuns
    /\ ssl' = [ssl EXCEPT !.pc = "checkMkcert", !.run = ssl.run + 1,
                          !.status = "none", !.out = {},
                          !.startKey = ssl.key, !.startCert = ssl.cert,
                          !.startInvocations = ssl.invocations,
                          !.threw = FALSE]
    /\ UNCHANGED componentVars

\* execSync('which mkcert'): it throws when mkcert is not on the path.
checkMkcert ==
    /\ ssl.pc = "checkMkcert"
    /\ ssl' = IF ssl.mkcert
              THEN [ssl EXCEPT !.pc = "createDirectory"]
              ELSE Exit(ssl, "1", {NotInstalledMsg})
    /\ UNCHANGED componentVars

\* fs.mkdirSync(certDir) when the directory is missing; an exception it
\* throws is not caught and ends the process with status 1.
createDirectory ==
    /\ ssl.pc = "createDirectory"
    /\ \/ ssl' = [ssl EXCEPT !.pc = "checkCertificates", !.dir = TRUE]
       \/ /\ ~ssl.dir
          /\ ssl' = Exit(ssl, "1", {})
    /\ UNCHANGED componentVars

\* What one mkcert invocation of run r does to file f when it writes it.
Written(f, written, r) == IF written THEN File(TRUE, r) ELSE f

\* execSync('mkcert ...') in run s.run: it returns normally (ok) or throws,
\* and either way has written some of the two files.
Mkcert(s, ok, wroteKey, wroteCert) ==
    LET after == [s EXCEPT
                    !.key = Written(s.key, wroteKey, s.run),
                    !.cert = Written(s.cert, wroteCert, s.run),
                    !.invocations = s.invocations + 1,
                    !.generated = IF ok /\ wroteKey /\ wroteCert
                                  THEN s.generated + 1
                                  ELSE s.generated,
                    !.threw = ~ok]
    IN  IF ok
        THEN [after EXCEPT !.pc = "verifyCertificates",
                           !.out = s.out \cup {GeneratedMsg}]
        ELSE Exit(after, "1", {GenerationFailedMsg})

\* A script that regenerates the certificates on every run.
checkCertificatesAlwaysGenerates ==
    /\ ssl.pc = "checkCertificates"
    /\ \E ok \in BOOLEAN, wroteKey \in BOOLEAN, wroteCert \in BOOLEAN :
          ssl' = Mkcert(ssl, ok, wroteKey, wroteCert)
    /\ UNCHANGED componentVars

\* Both files exist: they are kept.  Otherwise mkcert is invoked.
checkCertificates ==
    /\ ssl.pc = "checkCertificates"
    /\ IF ssl.key.exists /\ ssl.cert.exists
       THEN ssl' = [ssl EXCEPT !.pc = "verifyCertificates",
                               !.out = ssl.out \cup {KeepingMsg}]
       ELSE \E ok \in BOOLEAN, wroteKey \in BOOLEAN, wroteCert \in BOOLEAN :
              ssl' = Mkcert(ssl, ok, wroteKey, wroteCert)
    /\ UNCHANGED componentVars

\* A script that reports success without looking at the files.
verifyCertificatesUnchecked ==
    /\ ssl.pc = "verifyCertificates"
    /\ ssl' = Exit(ssl, "0", {CompleteMsg})
    /\ UNCHANGED componentVars

\* The final existence check and the report that follows it.
verifyCertificates ==
    /\ ssl.pc = "verifyCertificates"
    /\ ssl' = IF ~ssl.key.exists \/ ~ssl.cert.exists
              THEN Exit(ssl, "1", {NotFoundMsg})
              ELSE Exit(ssl, "0", {CompleteMsg})
    /\ UNCHANGED componentVars

----------------------------------------------------------------------------

ComponentInit ==
    /\ state = getInitialState
    /\ button = renderButton(getInitialState)
    /\ host = NoRange("null")
    /\ timers = <<>>
    /\ listeners = {}
    /\ handleSelectionRef = 0
    /\ binds = 0
    /\ disposed = FALSE
    /\ overlap = FALSE
    /\ errorAge = NoAge
    /\ notified = FALSE
    /\ trace = [event |-> "init", inside |-> FALSE, patch |-> NoPatch]

\* The component is constructed; setup-ssl.js has not been run.
Init ==
    /\ ComponentInit
    /\ ssl = ScriptStart(TRUE, TRUE, Old, Old)

\* What the step does with the state: the handler named event ran and
\* issued the patch P (one extendState call, which re-renders), or none.
Merge(event, inside, P) ==
    /\ state' = extendState(state, P)
    /\ button' = renderButton(extendState(state, P))
    /\ trace' = [event |-> event, inside |-> inside, patch |-> <<P>>]

NoMerge(event, inside) ==
    /\ UNCHANGED <<state, button>>
    /\ trace' = [event |-> event, inside |-> inside, patch |-> NoPatch]

\* A step of the environment: no handler runs.
Env == NoMerge("env", FALSE)

----------------------------------------------------------------------------
(* Lifecycle                                                               *)

didMount ==
    /\ binds < MaxMounts
    /\ binds' = binds + 1
    /\ handleSelectionRef' = binds + 1
    /\ listeners' = listeners \cup {binds + 1}
    /\ disposed' = FALSE
    /\ overlap' = (overlap \/ (binds > 0 /\ ~disposed))
    /\ NoMerge("didMount", FALSE)
    /\ UNCHANGED <<host, timers, errorAge, notified, ssl>>

\* The framework mounts a component once.
FirstMount ==
    /\ binds = 0
    /\ didMount

\* A dispose that passes the unbound prototype method to
\* removeEventListener.
disposeUnbound ==
    /\ binds > 0
    /\ listeners' = listeners \ {0}
    /\ disposed' = TRUE
    /\ NoMerge("dispose", FALSE)
    /\ UNCHANGED <<host, timers, handleSelectionRef, binds, overlap, errorAge,
                   notified, ssl>>

\* The framework disposes a component it has mounted.
dispose ==
    /\ binds > 0
    /\ listeners' = listeners \ {handleSelectionRef}
    /\ disposed' = TRUE
    /\ NoMerge("dispose", FALSE)
    /\ UNCHANGED <<host, timers, handleSelectionRef, binds, overlap, errorAge,
                   notified, ssl>>

----------------------------------------------------------------------------
(* Selection handling                                                      *)

handleSelectionAlways(activeElement) ==
    IF activeElement # "null" /\ inOurPlugin(activeElement)
    THEN NoMerge("handleSelection", InsideComponent(activeElement))
    ELSE LET selectionInfo == getCurrentSelection(host)
             hasSelection == Bool(derivedHasSelection(selectionInfo))
         IN  Merge("handleSelection", InsideComponent(activeElement),
                   [hasSelection |-> hasSelection])

\* A selection handler whose merge also drops the error.
handleSelectionClearsError(activeElement) ==
    IF activeElement # "null" /\ inOurPlugin(activeElement)
    THEN NoMerge("handleSelection", InsideComponent(activeElement))
    ELSE LET selectionInfo == getCurrentSelection(host)
             hasSelection == Bool(derivedHasSelection(selectionInfo))
         IN  IF Get(state, "hasSelection") # hasSelection
             THEN Merge("handleSelection", InsideComponent(activeElement),
                        [hasSelection |-> hasSelection, error |-> Null])
             ELSE NoMerge("handleSelection", InsideComponent(activeElement))

handleSelection(activeElement) ==
    IF activeElement # "null" /\ inOurPlugin(activeElement)
    THEN NoMerge("handleSelection", InsideComponent(activeElement))
    ELSE LET selectionInfo == getCurrentSelection(host)
             hasSelection == Bool(derivedHasSelection(selectionInfo))
         IN  IF Get(state, "hasSelection") # hasSelection
             THEN Merge("handleSelection", InsideComponent(activeElement),
                        [hasSelection |-> hasSelection])
             ELSE NoMerge("handleSelection", InsideComponent(activeElement))

\* The document dispatches 'selectionchange' to a registered listener.
SelectionChange ==
    /\ listeners # {}
    /\ \E activeElement \in ActiveElements :
          /\ handleSelection(activeElement)
          /\ notified' = (notified \/ ~InsideComponent(activeElement))
    /\ UNCHANGED <<host, timers, listeners, handleSelectionRef, binds,
                   disposed, overlap, errorAge, ssl>>

----------------------------------------------------------------------------
(* The action                                                              *)

showErrorNoTimer(message, duration) ==
    /\ Merge("handleAction", FALSE, [error |-> message])
    /\ timers' = timers
    /\ errorAge' = 0

showError(message, duration) ==
    /\ Merge("handleAction", FALSE, [error |-> message])
    /\ timers' = Append(timers, Timer("clear", duration, FALSE))
    /\ errorAge' = 0

handleActionLoadingFirst ==
    /\ Len(timers) < MaxTimers
    /\ LET selectionInfo == getCurrentSelection(host)
       IN  IF selectionInfo.null \/ ~Truthy(selectionInfo.text)
           THEN /\ Merge("handleAction", FALSE,
                         [isLoading |-> True, error |-> SelectMsg])
                /\ timers' = Append(timers, Timer("clear", ErrorDuration, FALSE))
                /\ errorAge' = 0
           ELSE /\ Merge("handleAction", FALSE,
                         [selectedText |-> selectionInfo.text,
                          sourceNodeId |-> selectionInfo.nodeId,
                          sourceNodeType |-> selectionInfo.nodeType,
                          isLoading |-> True,
                          error |-> Null])
                /\ timers' = Append(timers,
                                    Timer("op", ActionDelay,
                                          Truthy(Get(state, "hasSelection"))))
                /\ errorAge' = NoAge
    /\ UNCHANGED <<host, listeners, handleSelectionRef, binds, disposed, overlap,
                   notified, ssl>>

\* An action whose starting merge drops the previous response.
handleActionResetsResponse ==
    /\ Len(timers) < MaxTimers
    /\ LET selectionInfo == getCurrentSelection(host)
       IN  IF selectionInfo.null \/ ~Truthy(selectionInfo.text)
           THEN showError(SelectMsg, ErrorDuration)
           ELSE /\ Merge("handleAction", FALSE,
                         [selectedText |-> selectionInfo.text,
                          sourceNodeId |-> selectionInfo.nodeId,
                          sourceNodeType |-> selectionInfo.nodeType,
                          isLoading |-> True,
                          error |-> Null,
                          response |-> Null])
                /\ timers' = Append(timers,
                                    Timer("op", ActionDelay,
                                          Truthy(Get(state, "hasSelection"))))
                /\ errorAge' = NoAge
    /\ UNCHANGED <<host, listeners, handleSelectionRef, binds, disposed, overlap,
                   notified, ssl>>

\* An action whose starting merge leaves the error as it is.
handleActionKeepsError ==
    /\ Len(timers) < MaxTimers
    /\ LET selectionInfo == getCurrentSelection(host)
       IN  IF selectionInfo.null \/ ~Truthy(selectionInfo.text)
           THEN showError(SelectMsg, ErrorDuration)
           ELSE /\ Merge("handleAction", FALSE,
                         [selectedText |-> selectionInfo.text,
                          sourceNodeId |-> selectionInfo.nodeId,
                          sourceNodeType |-> selectionInfo.nodeType,
                          isLoading |-> True])
                /\ timers' = Append(timers,
                                    Timer("op", ActionDelay,
                                          Truthy(Get(state, "hasSelection"))))
                /\ errorAge' = errorAge
    /\ UNCHANGED <<host, listeners, handleSelectionRef, binds, disposed, overlap,
                   notified, ssl>>

handleAction ==
    /\ Len(timers) < MaxTimers
    /\ LET selectionInfo == getCurrentSelection(host)
       IN  IF selectionInfo.null \/ ~Truthy(selectionInfo.text)
           THEN showError(SelectMsg, ErrorDuration)
           ELSE /\ Merge("handleAction", FALSE,
                         [selectedText |-> selectionInfo.text,
                          sourceNodeId |-> selectionInfo.nodeId,
                          sourceNodeType |-> selectionInfo.nodeType,
                          isLoading |-> True,
                          error |-> Null])
                /\ timers' = Append(timers,
                                    Timer("op", ActionDelay,
                                          Truthy(Get(state, "hasSelection"))))
                /\ errorAge' = NoAge
    /\ UNCHANGED <<host, listeners, handleSelectionRef, binds, disposed, overlap,
                   notified, ssl>>

\* A click on the rendered button; a disabled button delivers no click.
ClickButton ==
    /\ ~disposed
    /\ ~button.disabled
    /\ handleAction

\* handleAction called on the component directly.
CallHandleAction == handleAction

\* A continuation that also resets the fields the start recorded.
ActionResolveResetsSnapshot ==
    /\ \E i \in Ops :
          /\ IsNext(i)
          /\ timers' = Without(i)
    /\ Merge("resolve", FALSE,
             [response |-> DoneMsg, isLoading |-> False, selectedText |-> Null,
              sourceNodeId |-> Null, sourceNodeType |-> Null])
    /\ UNCHANGED <<host, listeners, handleSelectionRef, binds, disposed, overlap,
                   errorAge, notified, ssl>>

\* The awaited promise resolves: the code after the await runs.
ActionResolve ==
    /\ \E i \in Ops :
          /\ IsNext(i)
          /\ timers' = Without(i)
    /\ Merge("resolve", FALSE, [response |-> DoneMsg, isLoading |-> False])
    /\ UNCHANGED <<host, listeners, handleSelectionRef, binds, disposed, overlap,
                   errorAge, notified, ssl>>

\* A catch block that records the error but leaves isLoading alone.
ActionFailKeepsLoading ==
    /\ \E i \in Ops :
          /\ IsNext(i)
          /\ timers' = Without(i)
    /\ Merge("fail", FALSE, [error |-> FailMsg])
    /\ errorAge' = NoAge
    /\ UNCHANGED <<host, listeners, handleSelectionRef, binds, disposed, overlap,
                   notified, ssl>>

\* The awaited operation (a stand-in for the plugin's real work) rejects:
\* the catch block runs.
ActionFail ==
    /\ \E i \in Ops :
          /\ IsNext(i)
          /\ timers' = Without(i)
    /\ Merge("fail", FALSE, [error |-> FailMsg, isLoading |-> False])
    /\ errorAge' = NoAge
    /\ UNCHANGED <<host, listeners, handleSelectionRef, binds, disposed, overlap,
                   notified, ssl>>

\* A timer callback that also ends Loading.
ClearErrorEndsLoading ==
    /\ \E i \in Clears :
          /\ IsNext(i)
          /\ timers' = Without(i)
    /\ Merge("clear", FALSE, [error |-> Null, isLoading |-> False])
    /\ errorAge' = NoAge
    /\ UNCHANGED <<host, listeners, handleSelectionRef, binds, disposed, overlap,
                   notified, ssl>>

\* showError's timer callback runs.
ClearError ==
    /\ \E i \in Clears :
          /\ IsNext(i)
          /\ timers' = Without(i)
    /\ Merge("clear", FALSE, [error |-> Null])
    /\ errorAge' = NoAge
    /\ UNCHANGED <<host, listeners, handleSelectionRef, binds, disposed, overlap,
                   notified, ssl>>

----------------------------------------------------------------------------
(* Environment                                                             *)

\* The editor's selection changes (no notification is delivered yet).
HostChange ==
    /\ \E h \in HostSelections \ {host} : host' = h
    /\ timers' = [i \in 1..Len(timers) |-> [timers[i] EXCEPT !.steady = FALSE]]
    /\ notified' = FALSE
    /\ Env
    /\ UNCHANGED <<listeners, handleSelectionRef, binds, disposed, overlap, errorAge,
                   ssl>>

\* Time passes, but never beyond the moment a pending timer is due.
Tick ==
    /\ timers # <<>>
    /\ \A i \in 1..Len(timers) : timers[i].left >= ClockStep
    /\ timers' = [i \in 1..Len(timers) |->
                    [timers[i] EXCEPT !.left = @ - ClockStep]]
    /\ errorAge' = IF errorAge = NoAge THEN NoAge ELSE errorAge + ClockStep
    /\ Env
    /\ UNCHANGED <<host, listeners, handleSelectionRef, binds, disposed, overlap,
                   notified, ssl>>

----------------------------------------------------------------------------

Next ==
    \/ FirstMount
    \/ dispose
    \/ SelectionChange
    \/ ClickButton
    \/ CallHandleAction
    \/ ActionResolve
    \/ ActionFail
    \/ ClearError
    \/ HostChange
    \/ Tick

Spec == Init /\ [][Next]_vars

\* The handler is reachable only through the rendered button.
NextUI ==
    \/ FirstMount
    \/ dispose
    \/ SelectionChange
    \/ ClickButton
    \/ ActionResolve
    \/ ActionFail
    \/ ClearError
    \/ HostChange
    \/ Tick

SpecUI == Init /\ [][NextUI]_vars

\* The lifecycle hooks in any order: didMount may run again on a component
\* that has not been disposed.
NextLifecycle ==
    \/ didMount
    \/ dispose
    \/ SelectionChange
    \/ ClickButton
    \/ ActionResolve
    \/ ActionFail
    \/ ClearError
    \/ HostChange
    \/ Tick

SpecLifecycle == Init /\ [][NextLifecycle]_vars

\* Time advances, a due timer callback runs, and the awaited operation
\* settles one way or the other.
Fairness ==
    /\ WF_vars(Tick)
    /\ WF_vars(ClearError)
    /\ WF_vars(ActionResolve \/ ActionFail)

SpecLive == Spec /\ Fairness

\* setup-ssl.js run up to MaxRuns times in a row on any starting machine.
InitSetupSsl ==
    /\ ComponentInit
    /\ ssl \in ScriptStarts

NextSetupSsl ==
    \/ runScript
    \/ checkMkcert
    \/ createDirectory
    \/ checkCertificates
    \/ verifyCertificates

SpecSetupSsl == InitSetupSsl /\ [][NextSetupSsl]_vars

TypeOK ==
    /\ host \in HostSelections
    /\ Len(timers) <= MaxTimers
    /\ errorAge \in 0..NoAge
----------------------------------------------------------------------------
(* Properties                                                              *)

Keys == DOMAIN getInitialState

\* C1: every patch a handler issues is merged: the keys outside the patch
\* keep their values, the keys of the patch take the patch's values, and
\* no key is lost.
C1_MergeNeverReplaces ==
    [][trace'.patch # NoPatch =>
         LET P == trace'.patch[1]
         IN  /\ DOMAIN state' = DOMAIN state \cup DOMAIN P
             /\ \A k \in DOMAIN state \ DOMAIN P : state'[k] = state[k]
             /\ \A k \in DOMAIN P : state'[k] = P[k]]_vars

\* An action has resolved and the fields its patch does not name still
\* hold what the start of the action recorded.
C1_Witness ==
    /\ trace.event = "resolve"
    /\ trace.patch = <<[response |-> DoneMsg, isLoading |-> False]>>
    /\ Get(state, "selectedText") = SomeText
    /\ Get(state, "hasSelection") = True

\* C2: the state record always contains every key of the initial record.
C2_KeysNeverRemoved == Keys \subseteq DOMAIN state

\* An error was shown and cleared by the timer after an action resolved.
C2_Witness ==
    /\ trace.event = "clear"
    /\ Keys \subseteq DOMAIN state
    /\ Get(state, "response") = DoneMsg
    /\ Get(state, "error") = Null

\* The button is enabled.
canProcess(S) == Get(S, "hasSelection") = True /\ Get(S, "isLoading") = False

\* The host selection has text that is not only whitespace.
HasVisibleText(h) ==
    h.sel = "range" /\ h.text # TextThrows /\ Len(trim(h.text)) > 0

\* C3: when an action resolves that started with hasSelection true and a
\* host selection that has not changed since, the button is enabled again:
\* hasSelection is still true and isLoading is false.
C3_ButtonEnabledAfterResponse ==
    [][\A i \in Ops :
         (trace'.event = "resolve" /\ IsNext(i) /\ timers' = Without(i)
             /\ timers[i].steady)
         => canProcess(state')]_vars

\* The same holds of every action whose selection has visible text: only a
\* whitespace-only selection leaves the button disabled after the response.
ResolveWithVisibleTextEnables ==
    [][\A i \in Ops :
         (trace'.event = "resolve" /\ IsNext(i) /\ timers' = Without(i)
             /\ timers[i].steady /\ HasVisibleText(host))
         => canProcess(state')]_vars

\* C4: a notification that arrives while the focused element is one of the
\* component's own leaves the state unchanged, whatever the host selection.
C4_SuppressedInsideComponent ==
    [][(trace'.event = "handleSelection" /\ trace'.inside)
         => (state' = state /\ button' = button /\ trace'.patch = NoPatch)]_vars

\* A suppressed notification: the host has a selection with text, and
\* hasSelection is still false.
C4_Witness ==
    /\ trace.event = "handleSelection"
    /\ trace.inside
    /\ HasVisibleText(host)
    /\ host.start \in DOMAIN DocNodes
    /\ Get(state, "hasSelection") = False

\* C5: a notification handled with focus outside the component, after an
\* earlier one and with the host selection unchanged since, issues no merge.
C5_SecondNotificationNoMerge ==
    [][(notified /\ trace'.event = "handleSelection" /\ ~trace'.inside)
         => trace'.patch = NoPatch]_vars

\* The second of two notifications for a selection with text.
C5_Witness ==
    /\ notified
    /\ trace.event = "handleSelection"
    /\ ~trace.inside
    /\ trace.patch = NoPatch
    /\ Get(state, "hasSelection") = True

\* The snapshot of the host selection can be taken: the selection can be
\* read, is a range, its text can be extracted and its start node is in
\* the document.
HasSnapshot(h) ==
    h.sel = "range" /\ h.text # TextThrows /\ h.start \in DOMAIN DocNodes

\* C6 as stated: after a notification handled with focus outside the
\* component, hasSelection is true exactly when the host selection exists,
\* is not collapsed and has text that is non-empty after trimming.
C6_HasSelectionIffVisibleText ==
    (trace.event = "handleSelection" /\ ~trace.inside)
    => (Get(state, "hasSelection") = True <=> HasVisibleText(host))

\* C6 as amended: after a notification handled with focus outside the
\* component, hasSelection is true exactly when the host selection exists,
\* is not collapsed, starts in a node the document knows, and has text that
\* is non-empty after trimming.
C6_HasSelectionIffSnapshotWithText ==
    (trace.event = "handleSelection" /\ ~trace.inside)
    => (Get(state, "hasSelection") = True
          <=> (HasSnapshot(host) /\ HasVisibleText(host)))

\* A notification for a selection with text has set hasSelection.
C6_Witness ==
    /\ trace.event = "handleSelection"
    /\ ~trace.inside
    /\ trace.patch = <<[hasSelection |-> True]>>
    /\ host = Range(SomeText, "n1", "n1")
    /\ Get(state, "hasSelection") = True

\* C7: invoking the action while the host selection is absent or collapsed
\* sets the error message, leaves isLoading as it was and starts no
\* asynchronous operation.
C7_RejectedNeverLoads ==
    [][(trace'.event = "handleAction" /\ host.sel \in {"null", "collapsed"})
         => /\ trace'.patch = <<[error |-> SelectMsg]>>
            /\ Get(state', "error") = SelectMsg
            /\ Get(state', "isLoading") = Get(state, "isLoading")
            /\ Cardinality(OpsIn(timers')) = Cardinality(Ops)]_vars

\* The action was invoked on a collapsed selection.
C7_Witness ==
    /\ trace.event = "handleAction"
    /\ host.sel = "collapsed"
    /\ Get(state, "error") = SelectMsg
    /\ Get(state, "isLoading") = False
    /\ Ops = {}

\* C8: when the action is triggered only through the rendered button, at
\* most one asynchronous operation is in flight.
C8_SingleFlight == Cardinality(Ops) <= 1

\* An operation is in flight, the host still has a selection, and a
\* further timer could be scheduled.
C8_Witness ==
    /\ Get(state, "isLoading") = True
    /\ Get(state, "hasSelection") = True
    /\ Cardinality(Ops) = 1
    /\ Len(timers) < MaxTimers
    /\ ~disposed

\* C9: the button is enabled exactly when hasSelection is true and
\* isLoading is false; while isLoading is true it is disabled.
C9_EnabledIffSelectionAndIdle ==
    /\ ~button.disabled <=> canProcess(state)
    /\ Get(state, "isLoading") = True => button.disabled

\* Loading with a selection: the button is disabled.
C9_Witness ==
    /\ Get(state, "isLoading") = True
    /\ Get(state, "hasSelection") = True
    /\ button.disabled

\* C10: the error of a rejected action is shown for at most ErrorDuration:
\* while it is shown, the timer that clears it is pending and due
\* ErrorDuration after the error was set.
C10_RejectionErrorCleared ==
    Get(state, "error") = SelectMsg
    => \E i \in Clears : timers[i].left = ErrorDuration - errorAge

\* The timer of a rejected action has fired: the error is absent again.
C10_Witness ==
    /\ trace.event = "clear"
    /\ timers = <<>>
    /\ Get(state, "error") = Null
    /\ Get(state, "hasSelection") = False
    /\ Get(state, "isLoading") = False
    /\ Get(state, "response") = Null

\* C11: a clear timer that fires clears the error it was scheduled for: the
\* rejection message, set ErrorDuration before.  A timer whose error was
\* cleared or overwritten meanwhile does not fire.
C11_StaleTimerNeverFires ==
    [][trace'.event = "clear"
         => (Get(state, "error") = SelectMsg /\ errorAge = ErrorDuration)]_vars

\* C12: when the operation fails, error is the failure message and
\* isLoading is false, and while the failure message is shown a timer that
\* will clear it is pending.
C12_FailureErrorCleared ==
    /\ trace.event = "fail"
         => (Get(state, "error") = FailMsg /\ Get(state, "isLoading") = False)
    /\ Get(state, "error") = FailMsg => Clears # {}

\* The start-of-action patch for the host selection h.
StartPatch(h) ==
    [selectedText |-> h.text,
     sourceNodeId |-> <<h.start>>,
     sourceNodeType |-> <<DocNodes[h.start]>>,
     isLoading |-> True,
     error |-> Null]

\* C13: invoked with a snapshot that has text, handleAction issues one
\* merge that sets selectedText, sourceNodeId and sourceNodeType from the
\* selection, isLoading to true and error to null, and starts one
\* asynchronous operation.
C13_StartMergesSnapshot ==
    [][(trace'.event = "handleAction" /\ HasSnapshot(host) /\ Truthy(host.text))
         => /\ trace'.patch = <<StartPatch(host)>>
            /\ \A k \in DOMAIN StartPatch(host) :
                  Get(state', k) = StartPatch(host)[k]
            /\ Cardinality(OpsIn(timers')) = Cardinality(Ops) + 1
            /\ timers'[Len(timers')].left = ActionDelay]_vars

\* An action has started on a selection in node n2 while an earlier error
\* was shown.
C13_Witness ==
    /\ trace.event = "handleAction"
    /\ host = Range(SomeText, "n2", "n2")
    /\ Get(state, "selectedText") = SomeText
    /\ Get(state, "sourceNodeId") = <<"n2">>
    /\ Get(state, "sourceNodeType") = <<"headline">>
    /\ Get(state, "isLoading") = True
    /\ Get(state, "error") = Null
    /\ Clears # {}

SnapshotKeys == {"selectedText", "sourceNodeId", "sourceNodeType"}

\* C14: when the operation resolves, response is the result and isLoading
\* is false; selectedText, sourceNodeId and sourceNodeType are written only
\* by the start of an action, so at the resolution they hold what the start
\* recorded, whatever the host selection has become.
C14_ResolveKeepsSnapshot ==
    [][/\ trace'.event = "resolve"
            => (Get(state', "response") = DoneMsg
                  /\ Get(state', "isLoading") = False)
       /\ trace'.event # "handleAction"
            => \A k \in SnapshotKeys : Get(state', k) = Get(state, k)]_vars

\* The action resolved after the host selection had collapsed.
C14_Witness ==
    /\ trace.event = "resolve"
    /\ host.sel = "collapsed"
    /\ Get(state, "response") = DoneMsg
    /\ Get(state, "isLoading") = False
    /\ Get(state, "selectedText") = SomeText
    /\ Get(state, "sourceNodeId") = <<"n1">>
    /\ Get(state, "sourceNodeType") = <<"paragraph">>

\* C15: given that time advances and the operation settles, every state
\* with isLoading true is followed by a state with isLoading false.
C15_LoadingEnds ==
    (Get(state, "isLoading") = True) ~> (Get(state, "isLoading") = False)

\* The operation failed and the component is idle again with nothing in
\* flight.
C15_Witness ==
    /\ trace.event = "fail"
    /\ Get(state, "isLoading") = False
    /\ Ops = {}
    /\ Get(state, "selectedText") = SomeText

\* The host selection query fails for h: getSelection throws, text
\* extraction throws, or the document has no node for the start path.
QueryFails(h) ==
    \/ h.sel = "throws"
    \/ /\ h.sel = "range"
       /\ (h.text = TextThrows \/ h.start \notin DOMAIN DocNodes)

\* C16: when the host selection query fails, the selection handler and the
\* action handler both complete and treat it as no selection: the selection
\* handler leaves hasSelection false after at most the one merge that sets
\* it, and the action handler does its single rejection merge and starts no
\* operation.
C16_QueryFailureIsNoSelection ==
    [][QueryFails(host)
         => /\ (trace'.event = "handleSelection" /\ ~trace'.inside)
                 => /\ Get(state', "hasSelection") = False
                    /\ \/ trace'.patch = NoPatch /\ state' = state
                       \/ trace'.patch = <<[hasSelection |-> False]>>
            /\ trace'.event = "handleAction"
                 => /\ trace'.patch = <<[error |-> SelectMsg]>>
                    /\ Get(state', "isLoading") = Get(state, "isLoading")
                    /\ OpsIn(timers') = Ops]_vars

\* The selection handler ran on a selection whose start node is unknown to
\* the document and turned hasSelection off.
C16_Witness ==
    /\ trace.event = "handleSelection"
    /\ ~trace.inside
    /\ host = Range(SomeText, "nx", "n1")
    /\ trace.patch = <<[hasSelection |-> False]>>

\* C17: invoked on a host selection that starts and ends in different
\* nodes, the action does not enter Loading: it sets isLoading to no new
\* value and starts no operation.
C17_MultiNodeNeverLoads ==
    [][(trace'.event = "handleAction" /\ host.sel = "range"
          /\ host.start # host.end)
         => /\ Get(state', "isLoading") = Get(state, "isLoading")
            /\ OpsIn(timers') = Ops]_vars

\* C19: once the component is disposed, the resolution or failure of an
\* operation still in flight leaves its state as it was.  (Driven through
\* the button, an operation pending on a disposed component was started
\* before the disposal.)
C19_DisposedSettleIsNoOp ==
    [][(disposed /\ trace'.event \in {"resolve", "fail"})
         => state' = state]_vars

\* C20: once the component is disposed, no pending error timer runs its
\* clear.  (Driven through the button, a timer pending on a disposed
\* component was scheduled before the disposal.)
C20_DisposedTimerRevoked ==
    [][disposed => trace'.event # "clear"]_vars

\* C18 as stated: after dispose no selection-change listener is registered,
\* whatever sequence of didMount and dispose calls came before.
C18_DisposedHasNoListener ==
    disposed => listeners = {}

\* C18: after dispose no selection-change listener is registered (so no
\* notification reaches the handler), provided didMount never ran on a
\* component that was mounted and not yet disposed: dispose removes the
\* function that the latest didMount bound and added.
C18_DisposedHasNoListenerUnlessRemounted ==
    (disposed /\ ~overlap) => listeners = {}

\* The component was mounted, disposed, mounted again and disposed again.
C18_Witness ==
    /\ disposed
    /\ ~overlap
    /\ binds = 2
    /\ listeners = {}
    /\ trace.event = "dispose"

\* C21 as stated: no reachable state has hasSelection false and isLoading
\* true, so the two reasons for a disabled button never hold together.
C21_ReasonsExclusive ==
    ~(Get(state, "hasSelection") = False /\ Get(state, "isLoading") = True)

\* C21: a disabled button carries exactly one reason: "no selection"
\* whenever hasSelection is false, also while an action is loading, and
\* "busy" only when hasSelection is true and isLoading is true.
C21_OneReasonShown ==
    button.disabled
      => /\ button.title \in {"Select text in the document first",
                              "Processing..."}
         /\ button.title = "Select text in the document first"
              <=> Get(state, "hasSelection") = False
         /\ button.title = "Processing..."
              <=> (Get(state, "hasSelection") = True
                     /\ Get(state, "isLoading") = True)

\* The selection collapsed while the action was loading: both reasons hold
\* and the button names the missing selection.
C21_Witness ==
    /\ Get(state, "hasSelection") = False
    /\ Get(state, "isLoading") = True
    /\ button.disabled
    /\ button.title = "Select text in the document first"
    /\ trace.event = "handleSelection"

\* C22: a selection-change notification changes no state field other than
\* hasSelection, also while an action is in flight or an error is shown.
C22_SelectionChangeFrame ==
    [][trace'.event = "handleSelection"
         => \A k \in Keys \ {"hasSelection"} : Get(state', k) = Get(state, k)]_vars

\* The selection handler turned hasSelection off while an action was in
\* flight and an earlier error was still shown.
C22_Witness ==
    /\ trace.event = "handleSelection"
    /\ trace.patch = <<[hasSelection |-> False]>>
    /\ Get(state, "isLoading") = True
    /\ Get(state, "error") = SelectMsg
    /\ Get(state, "selectedText") = SomeText
    /\ Ops # {}

\* C23: when handleAction enters Loading, the selectedText it records is
\* non-empty after trimming, and it enters Loading only on a selection for
\* which the selection handler derives hasSelection true.
C23_LoadingOnlyOnVisibleText ==
    [][(trace'.event = "handleAction" /\ trace'.patch # NoPatch
          /\ "isLoading" \in DOMAIN trace'.patch[1])
         => /\ Len(trim(Get(state', "selectedText"))) > 0
            /\ derivedHasSelection(getCurrentSelection(host))]_vars

\* C24: with the action triggered only through the enabled button, error
\* is absent in every state where isLoading is true.
C24_LoadingHasNoError ==
    Get(state, "isLoading") = True => Get(state, "error") = Null

\* An action started while a rejection error was shown: the start cleared
\* the error, whose timer is still pending.
C24_Witness ==
    /\ trace.event = "handleAction"
    /\ Get(state, "isLoading") = True
    /\ Get(state, "error") = Null
    /\ Clears # {}
    /\ Ops # {}
    /\ ~disposed

\* handleAction rejected the invocation in this step: it ran and did not
\* start an operation.
Rejected(t) ==
    /\ t.event = "handleAction"
    /\ t.patch # NoPatch
    /\ "isLoading" \notin DOMAIN t.patch[1]

\* C25: a rejected action changes only the error field: the step that sets
\* the error and the step of its auto-clear timer both leave selectedText,
\* sourceNodeId, sourceNodeType, response, hasSelection and isLoading as
\* they were.
C25_RejectionFrame ==
    [][(Rejected(trace') \/ trace'.event = "clear")
         => \A k \in Keys \ {"error"} : Get(state', k) = Get(state, k)]_vars

\* The auto-clear timer of a rejection fired while a later action was
\* loading, and the fields of that action are intact.
C25_Witness ==
    /\ trace.event = "clear"
    /\ trace.patch = <<[error |-> Null]>>
    /\ Get(state, "isLoading") = True
    /\ Get(state, "selectedText") = SomeText
    /\ Get(state, "hasSelection") = True
    /\ Get(state, "error") = Null

\* C26: response is written only by a resolving action: once set it is
\* never absent again, and starting, failing or rejecting an action, a
\* selection change and a timer all keep the previous response.
C26_ResponseNeverReset ==
    [][/\ Get(state, "response") # Null => Get(state', "response") # Null
       /\ trace'.event # "resolve"
            => Get(state', "response") = Get(state, "response")]_vars

\* A new action is loading while the response of the previous one is still
\* in the state.
C26_Witness ==
    /\ trace.event = "handleAction"
    /\ Get(state, "isLoading") = True
    /\ Get(state, "response") = DoneMsg
    /\ Ops # {}

\* C27: selectedText, sourceNodeId and sourceNodeType are all absent, or
\* together they are one snapshot (a text, the id of a document node and
\* that node's type); a step changes them only all at once, to the snapshot
\* a starting action took.
C27_SnapshotFieldsTogether ==
    [][LET text == Get(state', "selectedText")
           nodeId == Get(state', "sourceNodeId")
           nodeType == Get(state', "sourceNodeType")
       IN  /\ \/ text = Null /\ nodeId = Null /\ nodeType = Null
              \/ /\ Truthy(text)
                 /\ \E n \in DOMAIN DocNodes :
                       nodeId = <<n>> /\ nodeType = <<DocNodes[n]>>
           /\ \/ \A k \in SnapshotKeys : Get(state', k) = Get(state, k)
              \/ /\ trace'.event = "handleAction"
                 /\ ~getCurrentSelection(host).null
                 /\ text = getCurrentSelection(host).text
                 /\ nodeId = getCurrentSelection(host).nodeId
                 /\ nodeType = getCurrentSelection(host).nodeType]_vars

\* A second action replaced the snapshot of a paragraph by the snapshot of
\* a selection that starts in the paragraph and ends in the headline.
C27_Witness ==
    /\ trace.event = "handleAction"
    /\ host = Range(SomeText, "n1", "n2")
    /\ Get(state, "selectedText") = SomeText
    /\ Get(state, "sourceNodeId") = <<"n1">>
    /\ Get(state, "sourceNodeType") = <<"paragraph">>
    /\ Get(state, "response") = DoneMsg

\* C28: a run of setup-ssl.js that finds both the key file and the
\* certificate file leaves both as they are and does not invoke mkcert; and
\* over runs in a row at most one run generates the certificates (its
\* mkcert invocation returns normally having written both files): every
\* later run finds and keeps them.
C28_ExistingCertificatesKept ==
    /\ (ssl.run > 0 /\ ssl.startKey.exists /\ ssl.startCert.exists)
         => /\ ssl.key = ssl.startKey
            /\ ssl.cert = ssl.startCert
            /\ ssl.invocations = ssl.startInvocations
            /\ GeneratedMsg \notin ssl.out
    /\ ssl.generated <= 1
    /\ (ssl.generated = 1 /\ ssl.pc = "exited" /\ ssl.status = "0")
         => \E r \in 1..ssl.run : ssl.key = File(TRUE, r) /\ ssl.cert = File(TRUE, r)

\* The second run in a row has ended after keeping the certificates the
\* first run generated.
C28_Witness ==
    /\ ssl.run = 2
    /\ ssl.pc = "exited"
    /\ ssl.status = "0"
    /\ ssl.key = File(TRUE, 1)
    /\ ssl.cert = File(TRUE, 1)
    /\ ssl.generated = 1
    /\ ssl.invocations = 1
    /\ KeepingMsg \in ssl.out

\* The run is over.
Exited == ssl.run > 0 /\ ssl.pc = "exited"

\* C29: setup-ssl.js reports "SSL setup complete" only when both files
\* exist, and then ends with status 0; a run in which mkcert is missing,
\* mkcert throws, or a file is missing after generation ends with status 1
\* and without that report.
C29_CompleteOnlyWithBothFiles ==
    /\ CompleteMsg \in ssl.out
         => (ssl.key.exists /\ ssl.cert.exists /\ ssl.status = "0")
    /\ (Exited /\ (~ssl.mkcert \/ ssl.threw \/ ~ssl.key.exists \/ ~ssl.cert.exists))
         => (ssl.status = "1" /\ CompleteMsg \notin ssl.out)

\* mkcert returned normally but the certificate file is missing: the run
\* ended with status 1 after reporting the missing files.
C29_Witness ==
    /\ Exited
    /\ ssl.status = "1"
    /\ GeneratedMsg \in ssl.out
    /\ NotFoundMsg \in ssl.out
    /\ ssl.key.exists
    /\ ~ssl.cert.exists
    /\ CompleteMsg \notin ssl.out
====
